---- MODULE Spec2Model ----
(***************************************************************************)
(* SwarmSpawner (dockerspawner/swarmspawner.py): the per-user service      *)
(* lifecycle of a JupyterHub spawner on a swarm-style container engine.    *)
(*                                                                         *)
(* Representation.  A Python string that the model has to take apart is a  *)
(* sequence of text chunks: '' is <<>>, 'JPY_API_TOKEN=x' is               *)
(* <<"JPY_API_TOKEN", "=", "x">>.  The engine's n-th service ID is <<n>>.  *)
(* User names and volume paths are sequences of characters, with a        *)
(* replacement field such as "{username}" as one element.  A dict that is  *)
(* iterated is the sequence of its items in insertion order.               *)
(* A coroutine is a program counter per session; every action runs one    *)
(* coroutine from a resumption to its next yield, as the IOLoop does.      *)
(***************************************************************************)
EXTENDS Integers, Sequences, FiniteSets, TLC

\* ------------------------------------------------------------------------
\* Bounds of the model
\* ------------------------------------------------------------------------
MaxOps == 3

MaxSharedOps == 2

MaxTasks == 2

MaxConfigOps == 1

MaxOvertakingOps == 2

\* ------------------------------------------------------------------------
\* State: the traits and attributes of the spawners, the executor, the
\* IOLoop, the engine
\* ------------------------------------------------------------------------
\* overtaking: the worker thread may complete a call while the IOLoop thread
\* is still between executor.submit and the yield on the call's Future.
\* window: the calls (by submission number) for which this is still possible
VARIABLES service_id, api_token, remove_services, network_name, service_name_template, user, server_name, volumes, read_only_volumes, extra_create_kwargs, cpu_limit, cpu_guarantee, saved, op, pc, ret, sid0, calls, queue, executing, callbacks, window, submitted, started, services, nextId, opsBegun, active, quota, overtaking

vars == <<service_id, api_token, remove_services, network_name, service_name_template, user, server_name, volumes, read_only_volumes, extra_create_kwargs, cpu_limit, cpu_guarantee, saved, op, pc, ret, sid0, calls, queue, executing, callbacks, window, submitted, started, services, nextId, opsBegun, active, quota, overtaking>>

cfgVars == <<remove_services, network_name, service_name_template, user, server_name, volumes, read_only_volumes, extra_create_kwargs, cpu_limit, cpu_guarantee, active, quota, overtaking>>

engineVars == <<services, nextId>>

execVars == <<queue, executing, submitted, started>>

\* ------------------------------------------------------------------------
\* Program constants and configuration values
\* ------------------------------------------------------------------------
\* ThreadPoolExecutor(1)
Workers == 1

\* default of the port trait
port == 8888

image == <<"img:1">>

service_prefix == <<"jupyter">>

\* default of the service_name_template trait
default_service_name_template == <<"{prefix}", "-", "{username}">>

_service_escape_char == "_"

\* the part of string.ascii_letters + string.digits + '-' that the names
\* and the escape sequences of the model use
_service_safe_chars == {"a", "b", "n", "o", "-", "0", "2", "4", "5", "E", "F"}

\* the users of the two sessions (spawner instances) of the process
UserName == [s1 |-> <<"a", "n", "n">>, s2 |-> <<"b", "o", "@">>]

Sessions == DOMAIN UserName

\* format(b, 'X') of the bytes outside the safe set that user names use
HexOf(c) == IF c = "@" THEN <<"4", "0">> ELSE IF c = "_" THEN <<"5", "F">> ELSE <<"2", "E">>

RECURSIVE escape(_)
escape(name) == IF name = <<>> THEN <<>> ELSE (IF Head(name) \in _service_safe_chars THEN <<Head(name)>> ELSE <<_service_escape_char>> \o HexOf(Head(name))) \o escape(Tail(name))

\* a name that is the user name as it is
escaped_name_raw(s) == user[s]

escaped_name(s) == escape(user[s])

\* the replacement fields that the templates of the model use
Fields == {"{prefix}", "{username}", "{imagename}", "{servername}", "{user}"}

\* str.format(**d) raises KeyError for a replacement field that d lacks
KeyError(template, d) == \E i \in 1..Len(template) : template[i] \in Fields /\ template[i] \notin DOMAIN d

RECURSIVE Format(_, _)
Format(template, d) == IF template = <<>> THEN <<>> ELSE (IF Head(template) \in DOMAIN d THEN d[Head(template)] ELSE <<Head(template)>>) \o Format(Tail(template), d)

\* str.replace(old, new), chunk by chunk
replace(str, old, new) == [i \in 1..Len(str) |-> IF str[i] = old THEN new ELSE str[i]]

\* d = {'username': ..., 'imagename': ..., 'servername': ..., 'prefix': ...}
NameFields(s) == ("{username}" :> escaped_name(s)) @@ ("{imagename}" :> replace(image, "/", "_")) @@ ("{servername}" :> server_name[s]) @@ ("{prefix}" :> service_prefix)

\* evaluating self.service_name raises
service_name_raises(s) == KeyError(service_name_template, NameFields(s))

service_name(s) == Format(service_name_template, NameFields(s))

\* ------------------------------------------------------------------------
\* Python values
\* ------------------------------------------------------------------------
NoneVal == [t |-> "None"]

IntVal(n) == [t |-> "int", v |-> n]

ListVal(l) == [t |-> "list", v |-> l]

Returned(v) == [kind |-> "return", val |-> v]

Raised(e) == [kind |-> "raise", val |-> e]

NoResult == [kind |-> "none", val |-> NoneVal]

\* the token the hub sets on the spawner before it calls start
HubToken == <<"hubtoken">>

\* ------------------------------------------------------------------------
\* The engine: services by name, answers to the four calls
\* ------------------------------------------------------------------------
Ok(body) == [exc |-> "none", code |-> 200, body |-> body]

APIError(code) == [exc |-> "APIError", code |-> code, body |-> NoneVal]

NullResource == [exc |-> "NullResource", code |-> 0, body |-> NoneVal]

Pending == [exc |-> "pending", code |-> 0, body |-> NoneVal]

\* declared environments of the services that exist before the hub starts
EnvChoices == { <<>>, << <<"PATH", "=", "/bin">>, <<"JUPYTERHUB_API_TOKEN", "=", "abc123">> >>, << <<"JPY_API_TOKEN", "=", "a", "=", "b">>, <<"JUPYTERHUB_API_TOKEN", "=", "abc123">> >>, << <<"XJPY_API_TOKEN", "=", "no">> >> }

ServiceDict(svc) == [t |-> "service", ID |-> svc.ID, Config |-> [Env |-> svc.Env]]

Task(state) == [ID |-> <<"task">>, Status |-> [State |-> state]]

TaskStates == {"running", "failed"}

TaskLists == UNION {[1..n -> {Task(st) : st \in TaskStates}] : n \in 0..MaxTasks}

\* outcomes of inspect_service(name)
InspectOutcomes(name, svcs, nid) == LET found == {v \in svcs : v.Name = name} IN (IF found = {} THEN {[res |-> APIError(404), services |-> svcs, nextId |-> nid]} ELSE {[res |-> Ok(ServiceDict(v)), services |-> svcs, nextId |-> nid] : v \in found}) \cup {[res |-> APIError(c), services |-> svcs, nextId |-> nid] : c \in {500, 503}}

\* outcomes of remove_service(id)
RemoveOutcomes(id, svcs, nid) == IF id = <<>> THEN {[res |-> NullResource, services |-> svcs, nextId |-> nid]} ELSE LET found == {v \in svcs : v.ID = id} IN (IF found = {} THEN {[res |-> APIError(404), services |-> svcs, nextId |-> nid]} ELSE {[res |-> Ok(NoneVal), services |-> svcs \ found, nextId |-> nid]}) \cup {[res |-> APIError(503), services |-> svcs, nextId |-> nid]}

\* outcomes of create_service(task_template, endpoint_spec, name)
CreateOutcomes(arg, svcs, nid) == (IF \E v \in svcs : v.Name = arg.name THEN {[res |-> APIError(409), services |-> svcs, nextId |-> nid]} ELSE {[res |-> Ok([t |-> "created", ID |-> <<nid>>]), services |-> svcs \cup {[Name |-> arg.name, ID |-> <<nid>>, Env |-> arg.task_template.container_spec.env]}, nextId |-> nid + 1]}) \cup {[res |-> APIError(503), services |-> svcs, nextId |-> nid]}

\* outcomes of tasks(filters={'service': name, 'desired-state': 'running'})
TasksOutcomes(filters, svcs, nid) == (IF \E v \in svcs : v.Name = filters.service THEN {[res |-> Ok(ListVal(l)), services |-> svcs, nextId |-> nid] : l \in TaskLists} ELSE {[res |-> Ok(ListVal(<<>>)), services |-> svcs, nextId |-> nid]}) \cup {[res |-> APIError(c), services |-> svcs, nextId |-> nid] : c \in {404, 500, 503}}

\* _docker: getattr(self.client, method)(*args, **kwargs)
_docker(c, svcs, nid) == IF c.method = "inspect_service" THEN InspectOutcomes(c.arg, svcs, nid) ELSE IF c.method = "remove_service" THEN RemoveOutcomes(c.arg, svcs, nid) ELSE IF c.method = "create_service" THEN CreateOutcomes(c.arg, svcs, nid) ELSE TasksOutcomes(c.arg, svcs, nid)

\* ------------------------------------------------------------------------
\* State
\* ------------------------------------------------------------------------
\* the state dict of a spawner that never had a service
EmptyState == [k \in {} |-> <<>>]

\* extra_create_kwargs = Dict(): no extra keyword arguments
EmptyKwargs == [k \in {} |-> NoneVal]

\* the traits that a deployment leaves at their defaults
DefaultConfig == [service_name_template |-> default_service_name_template, user |-> UserName, server_name |-> [s \in Sessions |-> <<>>], volumes |-> <<>>, read_only_volumes |-> <<>>, extra_create_kwargs |-> EmptyKwargs, cpu_limit |-> NoneVal, cpu_guarantee |-> NoneVal]

\* the state after the spawners are constructed: act are the sessions the
\* hub drives, q the number of operations it begins, cfgs the configurations,
\* rms the settings of remove_services, pres the sets of sessions whose
\* service exists already
Constructed(act, q, nets, envs, rms, pres, cfgs, races) == /\ service_id = [s \in Sessions |-> <<>>]
                                   /\ \E c \in cfgs : /\ service_name_template = c.service_name_template
                                                      /\ user = c.user
                                                      /\ server_name = c.server_name
                                                      /\ volumes = c.volumes
                                                      /\ read_only_volumes = c.read_only_volumes
                                                      /\ extra_create_kwargs = c.extra_create_kwargs
                                                      /\ cpu_limit = c.cpu_limit
                                                      /\ cpu_guarantee = c.cpu_guarantee
                                   /\ api_token = [s \in Sessions |-> <<>>]
                                   /\ remove_services \in rms
                                   /\ network_name \in nets
                                   /\ saved = [s \in Sessions |-> EmptyState]
                                   /\ op = [s \in Sessions |-> "none"]
                                   /\ pc = [s \in Sessions |-> "idle"]
                                   /\ ret = [s \in Sessions |-> NoResult]
                                   /\ sid0 = [s \in Sessions |-> <<>>]
                                   /\ calls = [s \in Sessions |-> <<>>]
                                   /\ queue = <<>>
                                   /\ executing = <<>>
                                   /\ callbacks = <<>>
                                   /\ window = {}
                                   /\ submitted = 0
                                   /\ started = 0
                                   /\ \E e \in envs, pre \in {p \in pres : \A s \in p : ~service_name_raises(s)} : services = {[Name |-> service_name(s), ID |-> <<1>>, Env |-> e] : s \in pre}
                                   /\ nextId = 2
                                   /\ opsBegun = 0
                                   /\ active = act
                                   /\ quota = q
                                   /\ overtaking \in races

\* one session of the process is driven by the hub
Init == Constructed({"s1"}, MaxOps, {<<>>, <<"net1">>}, EnvChoices, BOOLEAN, SUBSET {"s1"}, {DefaultConfig}, {FALSE})

\* one session is driven by the hub while the worker thread may overtake
\* the IOLoop thread
InitOvertaking == Constructed({"s1"}, MaxOvertakingOps, {<<"net1">>}, {<<>>}, BOOLEAN, SUBSET {"s1"}, {DefaultConfig}, {TRUE})

\* every session of the process is driven by the hub, with remove_services
\* set, on an engine that holds no service yet
InitShared == Constructed(Sessions, MaxSharedOps, {<<"net1">>}, {<<>>}, {TRUE}, {{}}, {DefaultConfig}, {FALSE})

\* ------------------------------------------------------------------------
\* docker(): executor.submit(self._docker, method, ...) on the one executor
\* ------------------------------------------------------------------------
Call(s, tag, method, arg, seq, idx) == [sess |-> s, tag |-> tag, method |-> method, arg |-> arg, seq |-> seq, idx |-> idx]

docker(q, c) == Append(q, c)

Issued(method, arg) == [method |-> method, arg |-> arg, res |-> Pending]

\* a worker that takes the newest submitted call
NextCall_newest(q) == q[Len(q)]

\* the worker thread takes the next submitted call
NextCall(q) == Head(q)

\* a coroutine runs on until it yields a Future that is not done: the
\* continuation of a call that completed before its coroutine reached the
\* yield is at the head of the IOLoop's work and runs before anything else
FastPending == callbacks # <<>> /\ Head(callbacks).fast

\* yield future: a Future that is not done gets the continuation as its done
\* callback, which the IOLoop runs after the callbacks added before it; a
\* Future that is already done lets the coroutine go on at once
Resume(cbs, cb) == IF cb.fast THEN <<cb>> \o cbs ELSE Append(cbs, cb)

\* the calls submitted by the step of the IOLoop that is still running:
\* what this step submits, and what the steps it continues submitted
IOLoopTurn == window' = IF overtaking THEN (IF FastPending THEN window ELSE {}) \cup ((submitted + 1)..submitted') ELSE {}

WorkerStart == /\ queue # <<>>
               /\ ~FastPending
               /\ Len(executing) < Workers
               /\ executing' = Append(executing, NextCall(queue))
               /\ queue' = SelectSeq(queue, LAMBDA c : c.seq # NextCall(queue).seq)
               /\ started' = NextCall(queue).seq
               /\ UNCHANGED <<service_id, api_token, cfgVars, saved, op, pc, ret, sid0, calls, callbacks, window, submitted, engineVars, opsBegun>>

\* the call returns or raises in the worker thread.  If its coroutine has
\* yielded the Future, the done callback hands the continuation to the
\* IOLoop (add_callback); if the worker is done before the coroutine gets
\* from executor.submit to its yield, the coroutine finds the Future done
WorkerFinish == \E i \in 1..Len(executing) : LET c == executing[i] IN \E out \in _docker(c, services, nextId), fast \in {FALSE, overtaking /\ c.seq \in window /\ callbacks # <<>>} :
                     /\ executing' = SubSeq(executing, 1, i - 1) \o SubSeq(executing, i + 1, Len(executing))
                     /\ services' = out.services
                     /\ nextId' = out.nextId
                     /\ callbacks' = Resume(callbacks, [sess |-> c.sess, tag |-> c.tag, method |-> c.method, res |-> out.res, seq |-> c.seq, fast |-> fast])
                     /\ calls' = [calls EXCEPT ![c.sess][c.idx].res = out.res]
                     /\ window' = window \ {c.seq}
                     /\ UNCHANGED <<service_id, api_token, cfgVars, saved, op, pc, ret, sid0, queue, submitted, started, opsBegun>>

\* ------------------------------------------------------------------------
\* Pure parts of the operations
\* ------------------------------------------------------------------------
Exc(res) == [exc |-> res.exc, code |-> res.code]

\* get_service that forgets the identifier on 404 only
get_service_404_only(res, sid) == IF res.exc = "none" THEN [service_id |-> res.body.ID, out |-> Returned(res.body)] ELSE IF res.exc = "APIError" /\ res.code = 404 THEN [service_id |-> <<>>, out |-> Returned(NoneVal)] ELSE IF res.exc = "APIError" /\ res.code = 500 THEN [service_id |-> sid, out |-> Returned(NoneVal)] ELSE [service_id |-> sid, out |-> Raised(Exc(res))]

\* get_service after the inspect_service future resolved: the value it
\* returns or the error it raises, and the service_id it leaves
get_service(res, sid) == IF res.exc = "none" THEN [service_id |-> res.body.ID, out |-> Returned(res.body)] ELSE IF res.exc = "APIError" /\ res.code = 404 THEN [service_id |-> <<>>, out |-> Returned(NoneVal)] ELSE IF res.exc = "APIError" /\ res.code = 500 THEN [service_id |-> <<>>, out |-> Returned(NoneVal)] ELSE [service_id |-> sid, out |-> Raised(Exc(res))]

\* get_task that takes the first task of a longer listing
get_task_first(res) == IF res.exc = "none" THEN (IF Len(res.body.v) = 0 THEN Returned(NoneVal) ELSE Returned([t |-> "task", v |-> res.body.v[1]])) ELSE IF res.exc = "APIError" /\ res.code = 404 THEN Returned(NoneVal) ELSE Raised(Exc(res))

\* get_task after the tasks future resolved
get_task(res) == IF res.exc = "none" THEN (IF Len(res.body.v) = 0 THEN Returned(NoneVal) ELSE IF Len(res.body.v) > 1 THEN Raised([exc |-> "RuntimeError", code |-> 0]) ELSE Returned([t |-> "task", v |-> res.body.v[1]])) ELSE IF res.exc = "APIError" /\ res.code = 404 THEN Returned(NoneVal) ELSE Raised(Exc(res))

\* pprint.pformat: the printed representation of a value
pformat(v) == [pformat |-> v]

\* poll that compares the whole Status with 'running'
poll_never_healthy(gt) == IF gt.kind = "raise" THEN gt ELSE IF gt.val.t = "None" THEN Returned(IntVal(0)) ELSE Returned([t |-> "dict", v |-> [k \in DOMAIN gt.val.v |-> pformat(gt.val.v[k])]])

\* poll after get_task finished
poll(gt) == IF gt.kind = "raise" THEN gt ELSE IF gt.val.t = "None" THEN Returned(IntVal(0)) ELSE IF gt.val.v.Status.State = "running" THEN Returned(NoneVal) ELSE Returned([t |-> "dict", v |-> [k \in DOMAIN gt.val.v |-> pformat(gt.val.v[k])]])

\* ------------------------------------------------------------------------
\* Volumes.  A dict is the sequence of its items in insertion order; a path
\* is the sequence of its characters and replacement fields
\* ------------------------------------------------------------------------
\* the characters of the paths and names of the model, by code point
CodePointOrder == <<"-", ".", "/", "0", "1", "2", "3", "4", "@", "_", "a", "b", "c", "d", "h", "n", "o">>

ord(c) == CHOOSE i \in 1..Len(CodePointOrder) : CodePointOrder[i] = c

\* p < q of two Python strings
RECURSIVE StrLess(_, _)
StrLess(p, q) == IF q = <<>> THEN FALSE ELSE IF p = <<>> THEN TRUE ELSE IF Head(p) = Head(q) THEN StrLess(Tail(p), Tail(q)) ELSE ord(Head(p)) < ord(Head(q))

StrVal(p) == [t |-> "str", v |-> p]

DictVal(d) == [t |-> "dict", v |-> d]

Item(k, v) == [k |-> k, v |-> v]

\* d[key] = val: a key that is present keeps its position
DictSet(d, key, val) == IF \E i \in 1..Len(d) : d[i].k = key THEN [i \in 1..Len(d) |-> IF d[i].k = key THEN Item(key, val) ELSE d[i]] ELSE Append(d, Item(key, val))

\* default_format_volume_name: template.format(username=spawner.user.name)
VolumeFields(s) == "{username}" :> user[s]

_fmt(v, s) == Format(v, VolumeFields(s))

\* the loop of _volumes_to_binds raises: v['bind'] of a dict without
\* 'bind', or a path with a replacement field other than {username}
_volumes_to_binds_raises(vols, s) == \E i \in 1..Len(vols) : \/ KeyError(vols[i].k, VolumeFields(s))
                                                             \/ vols[i].v.t = "dict" /\ "bind" \notin DOMAIN vols[i].v.v
                                                             \/ vols[i].v.t = "dict" /\ "bind" \in DOMAIN vols[i].v.v /\ KeyError(vols[i].v.v["bind"], VolumeFields(s))
                                                             \/ vols[i].v.t = "str" /\ KeyError(vols[i].v.v, VolumeFields(s))

\* for k, v in volumes.items(): ... binds[_fmt(k)] = {'bind': _fmt(v), 'mode': m}
RECURSIVE _volumes_to_binds(_, _, _, _)
_volumes_to_binds(vols, binds, mode, s) == IF vols = <<>> THEN binds ELSE LET e == Head(vols).v IN _volumes_to_binds(Tail(vols), DictSet(binds, _fmt(Head(vols).k, s), [bind |-> _fmt(IF e.t = "dict" THEN e.v["bind"] ELSE e.v, s), mode |-> IF e.t = "dict" /\ "mode" \in DOMAIN e.v THEN e.v["mode"] ELSE mode]), mode, s)

volume_binds_raises(s) == _volumes_to_binds_raises(volumes, s) \/ _volumes_to_binds_raises(read_only_volumes, s)

volume_binds(s) == _volumes_to_binds(read_only_volumes, _volumes_to_binds(volumes, <<>>, <<"r", "w">>, s), <<"r", "o">>, s)

\* sorted([value['bind'] for value in self.volume_binds.values()])
volume_mount_points(s) == SortSeq([i \in 1..Len(volume_binds(s)) |-> volume_binds(s)[i].v.bind], StrLess)

\* DriverConfig(name=self.volume_driver, options=self.volume_driver_options or None)
mount_driver_config == [name |-> <<>>, options |-> NoneVal]

Mount(target, source, type, read_only, driver_config) == [target |-> target, source |-> source, type |-> type, read_only |-> read_only, driver_config |-> driver_config]

\* one Mount per item of volume_binds, in the order of the dict
mounts(s) == IF Len(volume_binds(s)) # 0 THEN [i \in 1..Len(volume_binds(s)) |-> Mount(volume_binds(s)[i].v.bind, volume_binds(s)[i].k, "bind", volume_binds(s)[i].v.mode = <<"r", "o">>, mount_driver_config)] ELSE <<>>

\* Spawner.get_env(): the environment of a new service carries the token
get_env(tok) == << <<"JUPYTERHUB_API_TOKEN", "=">> \o tok >>

\* a create that leaves the network out
networks_none(net) == <<>>

\* networks=[self.network_name] if self.network_name else []
networks(net) == IF net # <<>> THEN <<net>> ELSE <<>>

\* 1e9
Nano == 1000000000

\* a float trait that is set: the rational num / den
FloatVal(num, den) == [t |-> "float", num |-> num, den |-> den]

\* int(x): truncation toward zero
int(num, den) == IF num >= 0 THEN num \div den ELSE -((-num) \div den)

\* int(c * 1e9) if c else None: None and 0.0 are both false
nano_cpus(c) == IF c.t = "None" \/ c.num = 0 THEN NoneVal ELSE IntVal(int(c.num * Nano, c.den))

\* create_kwargs = dict(image=..., env=..., mounts=..., name=..., ...)
\* then create_kwargs.update(self.extra_create_kwargs)
create_kwargs(s, tok, net) == extra_create_kwargs @@ [image |-> image, env |-> get_env(tok), mounts |-> mounts(s), name |-> service_name(s), args |-> <<>>, mem_limit |-> NoneVal, mem_reservation |-> NoneVal, cpu_limit |-> nano_cpus(cpu_limit), cpu_reservation |-> nano_cpus(cpu_guarantee), networks |-> networks(net)]

\* building create_kwargs raises: self.mounts is the part that can
create_kwargs_raises(s) == volume_binds_raises(s)

_container_spec_keys == {"image", "command", "args", "hostname", "env", "workdir", "user", "labels", "mounts", "stop_grace_period", "secrets", "tty", "groups", "open_stdin", "read_only", "stop_signal", "healthcheck", "hosts", "dns_config", "configs", "privileges"}

_resource_spec_keys == {"cpu_limit", "mem_limit", "cpu_reservation", "mem_reservation"}

_task_spec_keys == {"networks"}

_endpoint_spec_keys == {"ports"}

\* {k: v for k, v in create_kwargs.items() if k in keys}
Slice(kw, keys) == [k \in (DOMAIN kw) \cap keys |-> kw[k]]

\* unused keys that count the endpoint keys in
remaining_keys_endpoint(kw) == (DOMAIN kw) \ (_container_spec_keys \cup _resource_spec_keys \cup _task_spec_keys \cup {"name"})

\* set(create_kwargs.keys()) - set().union(the four key sets, {"name"})
remaining_keys(kw) == (DOMAIN kw) \ (_container_spec_keys \cup _resource_spec_keys \cup _task_spec_keys \cup _endpoint_spec_keys \cup {"name"})

\* TaskTemplate(container_spec=..., resources=..., force_update=1, **task_spec)
TaskTemplate(kw) == [container_spec |-> Slice(kw, _container_spec_keys), resources |-> Slice(kw, _resource_spec_keys), force_update |-> 1] @@ Slice(kw, _task_spec_keys)

\* the keyword arguments of the create_service call
CreateArgs(kw) == [task_template |-> TaskTemplate(kw), endpoint_spec |-> Slice(kw, _endpoint_spec_keys), name |-> kw.name]

StartsWith(line, p) == Len(line) >= Len(p) /\ SubSeq(line, 1, Len(p)) = p

TokenPrefixes == {<<"JPY_API_TOKEN", "=">>, <<"JUPYTERHUB_API_TOKEN", "=">>}

IsTokenLine(line) == \E p \in TokenPrefixes : StartsWith(line, p)

\* line.split('=', 1)[1]
SplitAfterEq(line) == LET i == CHOOSE j \in 1..Len(line) : line[j] = "=" /\ \A k \in 1..(j - 1) : line[k] # "=" IN SubSeq(line, i + 1, Len(line))

\* the loop without its break: the last matching line wins
ReuseToken_last(env, tok) == IF \E j \in 1..Len(env) : IsTokenLine(env[j]) THEN SplitAfterEq(env[CHOOSE j \in 1..Len(env) : IsTokenLine(env[j]) /\ \A k \in (j + 1)..Len(env) : ~IsTokenLine(env[k])]) ELSE tok

\* for line in env: if line.startswith(...): api_token = ...; break
ReuseToken(env, tok) == IF \E j \in 1..Len(env) : IsTokenLine(env[j]) THEN SplitAfterEq(env[CHOOSE j \in 1..Len(env) : IsTokenLine(env[j]) /\ \A k \in 1..(j - 1) : ~IsTokenLine(env[k])]) ELSE tok

get_ip_and_port(s) == [t |-> "tuple", v |-> <<service_name(s), port>>]

\* Spawner.clear_state, inherited: SwarmSpawner defines no override, so
\* only the token is reset and service_id keeps its value
clear_state(sid, tok) == [service_id |-> sid, api_token |-> <<>>]

\* get_state / load_state
get_state(sid) == IF sid # <<>> THEN [k \in {"service_id"} |-> sid] ELSE EmptyState

load_state(state) == IF "service_id" \in DOMAIN state THEN state["service_id"] ELSE <<>>

\* ------------------------------------------------------------------------
\* Operations.  An operation begins when its session is idle; it is
\* resumed by the IOLoop with the oldest completed call.
\* ------------------------------------------------------------------------
Resumable(s, tag, method, at) == /\ callbacks # <<>>
                                 /\ Head(callbacks).sess = s
                                 /\ Head(callbacks).tag = tag
                                 /\ Head(callbacks).method = method
                                 /\ pc[s] = at

Begin(s, o) == /\ pc[s] = "idle"
               /\ ~FastPending
               /\ s \in active
               /\ opsBegun < quota
               /\ opsBegun' = opsBegun + 1
               /\ op' = [op EXCEPT ![s] = o]
               /\ ret' = [ret EXCEPT ![s] = NoResult]
               /\ sid0' = [sid0 EXCEPT ![s] = service_id[s]]

Finish(s, r) == /\ ret' = [ret EXCEPT ![s] = r]
                /\ pc' = [pc EXCEPT ![s] = "idle"]

\* one more call of the running operation goes to the executor
SubmitNext(s, method, arg, at) == /\ queue' = docker(queue, Call(s, "main", method, arg, submitted + 1, Len(calls[s]) + 1))
                                  /\ submitted' = submitted + 1
                                  /\ calls' = [calls EXCEPT ![s] = Append(@, Issued(method, arg))]
                                  /\ pc' = [pc EXCEPT ![s] = at]

\* the exception of a str.format call that misses a replacement field
KeyErrorExc == [exc |-> "KeyError", code |-> 0]

\* every operation evaluates self.service_name for its first log line,
\* before any call: an unresolvable template ends the operation there
EntryRaises(s, o) == /\ pc[s] = "idle"
                     /\ ~FastPending
                     /\ s \in active
                     /\ opsBegun < quota
                     /\ opsBegun' = opsBegun + 1
                     /\ op' = [op EXCEPT ![s] = o]
                     /\ ret' = [ret EXCEPT ![s] = Raised(KeyErrorExc)]
                     /\ sid0' = [sid0 EXCEPT ![s] = service_id[s]]
                     /\ calls' = [calls EXCEPT ![s] = <<>>]
                     /\ api_token' = [api_token EXCEPT ![s] = IF o = "start" THEN HubToken ELSE @]
                     /\ UNCHANGED <<service_id, cfgVars, saved, pc, execVars, callbacks, engineVars>>
                     /\ IOLoopTurn

\* get_service() called on its own: runs to the yield on inspect_service
GetServiceBegin(s) == IF service_name_raises(s) THEN EntryRaises(s, "get_service") ELSE
                      /\ Begin(s, "get_service")
                      /\ queue' = docker(queue, Call(s, "main", "inspect_service", service_name(s), submitted + 1, 1))
                      /\ submitted' = submitted + 1
                      /\ calls' = [calls EXCEPT ![s] = <<Issued("inspect_service", service_name(s))>>]
                      /\ pc' = [pc EXCEPT ![s] = "get_service"]
                      /\ UNCHANGED <<service_id, api_token, cfgVars, saved, executing, callbacks, started, engineVars>>
                      /\ IOLoopTurn

GetServiceDone(s) == /\ Resumable(s, "main", "inspect_service", "get_service")
                     /\ LET g == get_service(Head(callbacks).res, service_id[s]) IN
                          /\ service_id' = [service_id EXCEPT ![s] = g.service_id]
                          /\ Finish(s, g.out)
                     /\ callbacks' = Tail(callbacks)
                     /\ UNCHANGED <<api_token, cfgVars, saved, op, sid0, calls, execVars, engineVars, opsBegun>>
                     /\ IOLoopTurn

\* start(): service = yield self.get_service()
StartBegin(s) == IF service_name_raises(s) THEN EntryRaises(s, "start") ELSE
                 /\ Begin(s, "start")
                 /\ api_token' = [api_token EXCEPT ![s] = HubToken]
                 /\ queue' = docker(queue, Call(s, "main", "inspect_service", service_name(s), submitted + 1, 1))
                 /\ submitted' = submitted + 1
                 /\ calls' = [calls EXCEPT ![s] = <<Issued("inspect_service", service_name(s))>>]
                 /\ pc' = [pc EXCEPT ![s] = "start_get_service"]
                 /\ UNCHANGED <<service_id, cfgVars, saved, executing, callbacks, started, engineVars>>
                 /\ IOLoopTurn

\* a removal of the service the session knew before the lookup
RemovalId_stale(found, before) == before

\* yield self.docker('remove_service', self.service_id): get_service has
\* stored the ID of the service it found
RemovalId(found, before) == found

\* the removal branch without service = None
AfterRemoval_kept(service) == service

\* the value of service when start leaves the removal branch
AfterRemoval(service) == NoneVal

\* start(): the create branch up to the yield on create_service
StartCreate(s) == IF create_kwargs_raises(s)
                    THEN /\ Finish(s, Raised(KeyErrorExc))
                         /\ UNCHANGED <<calls, queue, submitted>>
                    ELSE /\ SubmitNext(s, "create_service", CreateArgs(create_kwargs(s, api_token[s], network_name)), "start_create")
                         /\ UNCHANGED ret

\* start() resumed with the result of get_service
StartGotService(s) == /\ Resumable(s, "main", "inspect_service", "start_get_service")
                      /\ callbacks' = Tail(callbacks)
                      /\ LET g == get_service(Head(callbacks).res, service_id[s]) IN
                           /\ service_id' = [service_id EXCEPT ![s] = g.service_id]
                           /\ IF g.out.kind = "raise"
                                THEN /\ Finish(s, g.out)
                                     /\ UNCHANGED <<api_token, calls, queue, submitted>>
                                ELSE IF g.out.val.t # "None" /\ remove_services
                                THEN /\ SubmitNext(s, "remove_service", RemovalId(g.service_id, service_id[s]), "start_remove")
                                     /\ UNCHANGED <<api_token, ret>>
                                ELSE IF g.out.val.t = "None"
                                THEN /\ StartCreate(s)
                                     /\ UNCHANGED api_token
                                ELSE /\ api_token' = [api_token EXCEPT ![s] = ReuseToken(g.out.val.Config.Env, @)]
                                     /\ Finish(s, Returned(get_ip_and_port(s)))
                                     /\ UNCHANGED <<calls, queue, submitted>>
                      /\ UNCHANGED <<cfgVars, saved, op, sid0, executing, started, engineVars, opsBegun>>
                      /\ IOLoopTurn

\* start() resumed after remove_service: service = None, then the create branch
StartRemoved(s) == /\ Resumable(s, "main", "remove_service", "start_remove")
                   /\ callbacks' = Tail(callbacks)
                   /\ IF Head(callbacks).res.exc # "none"
                        THEN /\ Finish(s, Raised(Exc(Head(callbacks).res)))
                             /\ UNCHANGED <<api_token, calls, queue, submitted>>
                        ELSE IF AfterRemoval([t |-> "service", ID |-> service_id[s]]).t = "None"
                        THEN /\ StartCreate(s)
                             /\ UNCHANGED api_token
                        ELSE /\ Finish(s, Returned(get_ip_and_port(s)))
                             /\ UNCHANGED <<api_token, calls, queue, submitted>>
                   /\ UNCHANGED <<service_id, cfgVars, saved, op, sid0, executing, started, engineVars, opsBegun>>
                   /\ IOLoopTurn

\* start() resumed after create_service: self.service_id = resp['ID']
StartCreated(s) == /\ Resumable(s, "main", "create_service", "start_create")
                   /\ callbacks' = Tail(callbacks)
                   /\ IF Head(callbacks).res.exc # "none"
                        THEN /\ Finish(s, Raised(Exc(Head(callbacks).res)))
                             /\ UNCHANGED service_id
                        ELSE /\ service_id' = [service_id EXCEPT ![s] = Head(callbacks).res.body.ID]
                             /\ Finish(s, Returned(get_ip_and_port(s)))
                   /\ UNCHANGED <<api_token, cfgVars, saved, op, sid0, calls, execVars, engineVars, opsBegun>>
                   /\ IOLoopTurn

\* stop(): yield self.docker('remove_service', self.service_id)
StopBegin(s) == IF service_name_raises(s) THEN EntryRaises(s, "stop") ELSE
                /\ Begin(s, "stop")
                /\ queue' = docker(queue, Call(s, "main", "remove_service", service_id[s], submitted + 1, 1))
                /\ submitted' = submitted + 1
                /\ calls' = [calls EXCEPT ![s] = <<Issued("remove_service", service_id[s])>>]
                /\ pc' = [pc EXCEPT ![s] = "stop_remove"]
                /\ UNCHANGED <<service_id, api_token, cfgVars, saved, executing, callbacks, started, engineVars>>
                /\ IOLoopTurn

\* stop() resumed: the error of the call, or self.clear_state()
StopRemoved(s) == /\ Resumable(s, "main", "remove_service", "stop_remove")
                  /\ callbacks' = Tail(callbacks)
                  /\ IF Head(callbacks).res.exc # "none"
                       THEN /\ Finish(s, Raised(Exc(Head(callbacks).res)))
                            /\ UNCHANGED <<service_id, api_token>>
                       ELSE /\ service_id' = [service_id EXCEPT ![s] = clear_state(@, api_token[s]).service_id]
                            /\ api_token' = [api_token EXCEPT ![s] = clear_state(service_id[s], @).api_token]
                            /\ Finish(s, Returned(NoneVal))
                  /\ UNCHANGED <<cfgVars, saved, op, sid0, calls, execVars, engineVars, opsBegun>>
                  /\ IOLoopTurn

\* get_task(): self.get_service() starts the inspect and hands back a
\* Future, which is not None and is not awaited; get_task goes on to the
\* yield on tasks
TaskLookup(s) == /\ queue' = docker(docker(queue, Call(s, "bg", "inspect_service", service_name(s), submitted + 1, 1)), Call(s, "main", "tasks", [service |-> service_name(s), desired_state |-> "running"], submitted + 2, 2))
                 /\ submitted' = submitted + 2
                 /\ calls' = [calls EXCEPT ![s] = <<Issued("inspect_service", service_name(s)), Issued("tasks", [service |-> service_name(s), desired_state |-> "running"])>>]
                 /\ pc' = [pc EXCEPT ![s] = "get_task"]

GetTaskBegin(s) == IF service_name_raises(s) THEN EntryRaises(s, "get_task") ELSE
                   /\ Begin(s, "get_task")
                   /\ TaskLookup(s)
                   /\ UNCHANGED <<service_id, api_token, cfgVars, saved, executing, callbacks, started, engineVars>>
                   /\ IOLoopTurn

\* poll(): service = yield self.get_task()
PollBegin(s) == IF service_name_raises(s) THEN EntryRaises(s, "poll") ELSE
                /\ Begin(s, "poll")
                /\ TaskLookup(s)
                /\ UNCHANGED <<service_id, api_token, cfgVars, saved, executing, callbacks, started, engineVars>>
                /\ IOLoopTurn

\* the get_service coroutine that get_task left behind is resumed: it sets
\* service_id; what it returns or raises stays in its unobserved Future
BackgroundGetService(s) == /\ callbacks # <<>>
                           /\ Head(callbacks).sess = s
                           /\ Head(callbacks).tag = "bg"
                           /\ callbacks' = Tail(callbacks)
                           /\ service_id' = [service_id EXCEPT ![s] = get_service(Head(callbacks).res, @).service_id]
                           /\ UNCHANGED <<api_token, cfgVars, saved, op, pc, ret, sid0, calls, execVars, engineVars, opsBegun>>
                           /\ IOLoopTurn

GetTaskDone(s) == /\ Resumable(s, "main", "tasks", "get_task")
                  /\ op[s] = "get_task"
                  /\ callbacks' = Tail(callbacks)
                  /\ Finish(s, get_task(Head(callbacks).res))
                  /\ UNCHANGED <<service_id, api_token, cfgVars, saved, op, sid0, calls, execVars, engineVars, opsBegun>>
                  /\ IOLoopTurn

PollDone(s) == /\ Resumable(s, "main", "tasks", "get_task")
               /\ op[s] = "poll"
               /\ callbacks' = Tail(callbacks)
               /\ Finish(s, poll(get_task(Head(callbacks).res)))
               /\ UNCHANGED <<service_id, api_token, cfgVars, saved, op, sid0, calls, execVars, engineVars, opsBegun>>
               /\ IOLoopTurn

\* the hub stores get_state() of an idle spawner
SaveState(s) == /\ pc[s] = "idle"
                /\ s \in active
                /\ ~FastPending
                /\ saved' = [saved EXCEPT ![s] = get_state(service_id[s])]
                /\ UNCHANGED <<service_id, api_token, cfgVars, op, pc, ret, sid0, calls, execVars, callbacks, engineVars, opsBegun>>
                /\ IOLoopTurn

Quiescent == /\ \A s \in Sessions : pc[s] = "idle"
             /\ queue = <<>> /\ executing = <<>> /\ callbacks = <<>>

\* the hub process restarts: new spawner objects, load_state(stored state)
HubRestart == /\ Quiescent
              /\ service_id' = [s \in Sessions |-> load_state(saved[s])]
              /\ api_token' = [s \in Sessions |-> <<>>]
              /\ op' = [s \in Sessions |-> "none"]
              /\ ret' = [s \in Sessions |-> NoResult]
              /\ sid0' = [s \in Sessions |-> <<>>]
              /\ calls' = [s \in Sessions |-> <<>>]
              /\ UNCHANGED <<cfgVars, saved, pc, execVars, callbacks, engineVars, opsBegun>>
              /\ IOLoopTurn

\* ------------------------------------------------------------------------
\* Configurations: the values of the traits that the deployments of the
\* model set
\* ------------------------------------------------------------------------
\* user names: safe characters, '@', and the escape character itself
NameChoices == {<<"a", "n", "n">>, <<"b", "o", "@">>, <<"a", "@">>, <<"a", "_", "4", "0">>, <<"a", "-", "b">>}

\* the name of a named server; '' is the default server
ServerNames == {<<>>, <<"b">>}

\* templates that resolve, and one with a field that service_name lacks
TemplateChoices == {default_service_name_template, <<"{prefix}", "-", "{username}", "-", "{servername}">>}

UnresolvableTemplate == <<"{prefix}", "-", "{user}">>

NamingConfigs == {[DefaultConfig EXCEPT !.service_name_template = t, !.user = u, !.server_name = n] : t \in TemplateChoices, u \in [Sessions -> NameChoices], n \in [Sessions -> ServerNames]} \cup {[DefaultConfig EXCEPT !.service_name_template = UnresolvableTemplate]}

VolumeChoices == { <<>>,
                   <<Item(<<"/", "h", "1">>, StrVal(<<"/", "a">>))>>,
                   <<Item(<<"/", "h", "2">>, StrVal(<<"/", "b">>)), Item(<<"/", "h", "1">>, StrVal(<<"/", "a">>))>>,
                   <<Item(<<"/", "h", "1">>, DictVal([bind |-> <<"/", "a">>, mode |-> <<"r", "o">>]))>>,
                   <<Item(<<"/", "h", "/", "{username}">>, StrVal(<<"/", "h", "/", "{username}">>))>>,
                   <<Item(<<"/", "h", "1">>, StrVal(<<"/", "d", "/", "{user}">>))>>,
                   <<Item(<<"/", "h", "1">>, DictVal([mode |-> <<"r", "w">>]))>> }

ReadOnlyVolumeChoices == { <<>>,
                           <<Item(<<"/", "h", "1">>, StrVal(<<"/", "a">>))>>,
                           <<Item(<<"/", "h", "1">>, DictVal([bind |-> <<"/", "a">>]))>>,
                           <<Item(<<"/", "h", "1">>, DictVal([bind |-> <<"/", "a">>, mode |-> <<"r", "w">>]))>>,
                           <<Item(<<"/", "h", "3">>, StrVal(<<"/", "c">>))>> }

VolumeConfigs == {[DefaultConfig EXCEPT !.volumes = v, !.read_only_volumes = r] : v \in VolumeChoices, r \in ReadOnlyVolumeChoices}

ExtraChoices == {EmptyKwargs, "foo" :> IntVal(1), ("hostname" :> <<"nb">>) @@ ("ports" :> IntVal(port)) @@ ("foo" :> IntVal(1))}

ExtraConfigs == {[DefaultConfig EXCEPT !.extra_create_kwargs = e] : e \in ExtraChoices}

\* cpu_limit and cpu_guarantee: unset, 0, 1/3, 1/2, 2/3, 1, 2 cores
CpuChoices == {NoneVal, FloatVal(0, 1), FloatVal(1, 3), FloatVal(1, 2), FloatVal(2, 3), FloatVal(1, 1), FloatVal(2, 1)}

CpuConfigs == {[DefaultConfig EXCEPT !.cpu_limit = l] : l \in CpuChoices} \cup {[DefaultConfig EXCEPT !.cpu_guarantee = g] : g \in CpuChoices}

ConfigChoices == NamingConfigs \cup VolumeConfigs \cup ExtraConfigs \cup CpuConfigs

\* one session is driven by the hub, under each of the configurations: with
\* and without a service to remove under the volume configurations, on an
\* engine without services under the others
InitConfigured == \/ Constructed({"s1"}, MaxConfigOps, {<<"net1">>}, {<<>>}, BOOLEAN, SUBSET {"s1"}, VolumeConfigs, {FALSE})
                  \/ Constructed({"s1"}, MaxConfigOps, {<<"net1">>}, {<<>>}, {FALSE}, {{}}, ConfigChoices \ VolumeConfigs, {FALSE})

Next == \/ WorkerStart
        \/ WorkerFinish
        \/ HubRestart
        \/ \E s \in Sessions : \/ GetServiceBegin(s)
                               \/ GetServiceDone(s)
                               \/ StartBegin(s)
                               \/ StartGotService(s)
                               \/ StartRemoved(s)
                               \/ StartCreated(s)
                               \/ StopBegin(s)
                               \/ StopRemoved(s)
                               \/ GetTaskBegin(s)
                               \/ PollBegin(s)
                               \/ BackgroundGetService(s)
                               \/ GetTaskDone(s)
                               \/ PollDone(s)
                               \/ SaveState(s)

Spec == Init /\ [][Next]_vars

SpecConfigured == InitConfigured /\ [][Next]_vars

SpecShared == InitShared /\ [][Next]_vars

SpecOvertaking == InitOvertaking /\ [][Next]_vars

TypeOK == /\ \A s \in Sessions : pc[s] \in {"idle", "get_service", "start_get_service", "start_remove", "start_create", "stop_remove", "get_task"}
          /\ Len(executing) <= 2

\* ------------------------------------------------------------------------
\* Properties
\* ------------------------------------------------------------------------
\* operation o of session s has returned or raised
Done(s, o) == pc[s] = "idle" /\ op[s] = o /\ ret[s].kind # "none"

IsStatus(res, codes) == res.exc = "APIError" /\ res.code \in codes

IsNone(r) == r.kind = "return" /\ r.val.t = "None"

\* C1: stop() called with a known (non-empty) service_id always ends with
\* service_id empty, whether remove_service succeeded, answered 404 or
\* failed otherwise.
C1_StopClearsRecord == \A s \in Sessions : (Done(s, "stop") /\ sid0[s] # <<>>) => service_id[s] = <<>>

\* C2: get_service returns None without raising and leaves service_id empty
\* when the inspect is answered 404 or 500, whatever service_id was before;
\* when the inspect succeeds, service_id is the ID the engine returned.
C2_GetService == \A s \in Sessions : Done(s, "get_service") => LET r == calls[s][1].res IN
                     /\ IsStatus(r, {404, 500}) => (IsNone(ret[s]) /\ service_id[s] = <<>>)
                     /\ r.exc = "none" => (service_id[s] = r.body.ID /\ ret[s].kind = "return")

C2_Witness == \E s \in Sessions : Done(s, "get_service") /\ IsStatus(calls[s][1].res, {404}) /\ sid0[s] # <<>> /\ service_id[s] = <<>>

\* C3: when the task listing holds more than one task, get_task raises the
\* consistency error (RuntimeError) and returns no task; so does poll.
C3_MoreThanOneTask == \A s \in Sessions : ((Done(s, "get_task") \/ Done(s, "poll")) /\ calls[s][2].res.exc = "none" /\ Len(calls[s][2].res.body.v) > 1) => (ret[s].kind = "raise" /\ ret[s].val.exc = "RuntimeError")

C3_Witness == \E s \in Sessions : Done(s, "poll") /\ calls[s][2].res.exc = "none" /\ Len(calls[s][2].res.body.v) = 2 /\ ret[s].kind = "raise"

CreateCalls(s) == {i \in 1..Len(calls[s]) : calls[s][i].method = "create_service"}

\* C4: start on a fresh session (the inspect of the derived name is answered
\* 404) issues exactly one create_service call; its container spec carries
\* the configured image and its task spec the one-element list of the
\* configured network name; when the call succeeds, service_id is the
\* returned ID and start returns (service name, port).
C4_FreshStart == \A s \in Sessions : (Done(s, "start") /\ IsStatus(calls[s][1].res, {404})) =>
                     /\ Len(calls[s]) = 2 /\ CreateCalls(s) = {2}
                     /\ calls[s][2].arg.task_template.container_spec.image = image
                     /\ network_name # <<>> => calls[s][2].arg.task_template.networks = <<network_name>>
                     /\ calls[s][2].arg.name = service_name(s)
                     /\ calls[s][2].res.exc = "none" => /\ service_id[s] = calls[s][2].res.body.ID
                                                        /\ ret[s].kind = "return"
                                                        /\ ret[s].val.t = "tuple"
                                                        /\ ret[s].val.v = <<service_name(s), port>>

C4_Witness == \E s \in Sessions : Done(s, "start") /\ IsStatus(calls[s][1].res, {404}) /\ network_name = <<"net1">> /\ ret[s].kind = "return" /\ service_id[s] = <<2>>

\* the session token held in a declared environment: the text after the
\* first '=' of the first line that begins with one of the two prefixes
HoldsToken(env, tok) == \E j \in 1..Len(env) : /\ IsTokenLine(env[j])
                                               /\ \A k \in 1..(j - 1) : ~IsTokenLine(env[k])
                                               /\ \E i \in 1..Len(env[j]) : /\ env[j][i] = "="
                                                                            /\ \A k \in 1..(i - 1) : env[j][k] # "="
                                                                            /\ tok = SubSeq(env[j], i + 1, Len(env[j]))

FoundWithToken(s) == /\ Done(s, "start")
                     /\ calls[s][1].res.exc = "none"
                     /\ \E j \in 1..Len(calls[s][1].res.body.Config.Env) : IsTokenLine(calls[s][1].res.body.Config.Env[j])

\* C5 as stated: a start that finds an existing service whose environment
\* has a token line takes the token from it and issues no create_service.
C5_Original == \A s \in Sessions : FoundWithToken(s) => (ret[s].kind = "return" /\ CreateCalls(s) = {} /\ HoldsToken(calls[s][1].res.body.Config.Env, api_token[s]))

\* C5 (amended): with remove-on-stop disabled, a start that finds an
\* existing service whose environment has a token line sets the session
\* token to the text after the first '=' of the first such line and issues
\* no create_service call.
C5_ReuseToken == \A s \in Sessions : (FoundWithToken(s) /\ ~remove_services) => (ret[s].kind = "return" /\ CreateCalls(s) = {} /\ Len(calls[s]) = 1 /\ HoldsToken(calls[s][1].res.body.Config.Env, api_token[s]))

C5_Witness == \E s \in Sessions : FoundWithToken(s) /\ ~remove_services /\ api_token[s] = <<"a", "=", "b">> /\ Len(calls[s][1].res.body.Config.Env) = 2

\* C6: every start that returns successfully leaves exactly one service
\* with the session's derived name in the engine.
C6_ExactlyOneService == \A s \in Sessions : (Done(s, "start") /\ ret[s].kind = "return") => Cardinality({v \in services : v.Name = service_name(s)}) = 1

C6_Witness == \E s \in Sessions : Done(s, "start") /\ ret[s].kind = "return" /\ remove_services /\ Len(calls[s]) = 3 /\ sid0[s] # <<>> /\ opsBegun = 3

\* C7: poll returns 0 when the lookup finds no task (empty listing or 404),
\* None when the single task's state is 'running', and otherwise a snapshot
\* with every field of the task; it has no other return value.
C7_PollOutcomes == \A s \in Sessions : Done(s, "poll") => LET r == calls[s][2].res IN
                       /\ ((r.exc = "none" /\ Len(r.body.v) = 0) \/ IsStatus(r, {404})) => (ret[s].kind = "return" /\ ret[s].val.t = "int" /\ ret[s].val.v = 0)
                       /\ (r.exc = "none" /\ Len(r.body.v) = 1 /\ r.body.v[1].Status.State = "running") => IsNone(ret[s])
                       /\ (r.exc = "none" /\ Len(r.body.v) = 1 /\ r.body.v[1].Status.State # "running") => (ret[s].kind = "return" /\ ret[s].val.t = "dict" /\ DOMAIN ret[s].val.v = DOMAIN r.body.v[1] /\ \A k \in DOMAIN r.body.v[1] : ret[s].val.v[k] = pformat(r.body.v[1][k]))
                       /\ ret[s].kind = "return" => ret[s].val.t \in {"int", "None", "dict"}

C7_Witness == \E s \in Sessions : Done(s, "poll") /\ IsStatus(calls[s][1].res, {404}) /\ IsStatus(calls[s][2].res, {404}) /\ ret[s].kind = "return" /\ ret[s].val.t = "int"

\* C8: at most one engine call executes at any time, across all sessions,
\* and the calls begin to execute in the order of their submission.
C8_OneCallAtATime == [](Len(executing) <= 1) /\ [][started' # started => (started' = started + 1 /\ \A i \in 1..Len(queue') : queue'[i].seq > started')]_vars

C8_Witness == Len(executing) = 1 /\ Len(queue) >= 2 /\ \E i \in 1..Len(queue) : queue[i].sess # executing[1].sess

\* a call failed with a status the operation does not map
Unmapped(c) == /\ c.res.exc \notin {"none", "pending"}
               /\ ~(c.method = "inspect_service" /\ IsStatus(c.res, {404, 500}))
               /\ ~(c.method = "tasks" /\ IsStatus(c.res, {404}))

\* C9: a failure of an engine call with an unmapped status reaches the
\* caller of the operation as that same error, and no operation issues the
\* same engine call twice.
C9_ErrorsPropagate == \A s \in Sessions : (pc[s] = "idle" /\ ret[s].kind # "none") =>
                          /\ \A i \in 1..Len(calls[s]) : Unmapped(calls[s][i]) => (ret[s].kind = "raise" /\ ret[s].val = Exc(calls[s][i].res))
                          /\ \A i, j \in 1..Len(calls[s]) : calls[s][i].method = calls[s][j].method => i = j

\* C10: when a start fails during creation, service_id is empty afterwards,
\* on the fresh path and after the removal of a pre-existing service.
C10_FailedCreateLeavesNoRecord == \A s \in Sessions : (Done(s, "start") /\ ret[s].kind = "raise" /\ CreateCalls(s) # {}) => service_id[s] = <<>>

\* the mounts of the container spec of a create_service call
MountsOf(c) == c.arg.task_template.container_spec.mounts

\* C11: for every host path key present in both volumes and
\* read_only_volumes the resulting binding has mode 'ro' (the mount handed
\* to the engine is read-only), whatever form the two entries take.
C11_ReadOnlyWins == \A s \in Sessions : \A i \in CreateCalls(s) : \A a \in 1..Len(volumes), b \in 1..Len(read_only_volumes) :
                        volumes[a].k = read_only_volumes[b].k => \E j \in 1..Len(MountsOf(calls[s][i])) : MountsOf(calls[s][i])[j].source = _fmt(volumes[a].k, s) /\ MountsOf(calls[s][i])[j].read_only

\* the key sets of the four slices of a create_service call
SliceKeys(c) == <<DOMAIN c.arg.task_template.container_spec, DOMAIN c.arg.task_template.resources, (DOMAIN c.arg.task_template) \ {"container_spec", "resources", "force_update"}, DOMAIN c.arg.endpoint_spec>>

\* the number of places a key of the option map went to: the four slices
\* and the reported unused keys
Places(k, c, kw) == Cardinality({x \in 1..4 : k \in SliceKeys(c)[x]}) + (IF k \in remaining_keys(kw) THEN 1 ELSE 0)

KeySetsDisjoint == /\ _container_spec_keys \cap (_resource_spec_keys \cup _task_spec_keys \cup _endpoint_spec_keys) = {}
                   /\ _resource_spec_keys \cap (_task_spec_keys \cup _endpoint_spec_keys) = {}
                   /\ _task_spec_keys \cap _endpoint_spec_keys = {}

\* C12 as stated: every key of the flat create option map appears in
\* exactly one of the container, resource, task and endpoint slices or in
\* the reported unused keys, and the four key sets are pairwise disjoint.
C12_Original == \A s \in Sessions : \A i \in CreateCalls(s) : /\ KeySetsDisjoint
                                                             /\ \A k \in DOMAIN create_kwargs(s, api_token[s], network_name) : Places(k, calls[s][i], create_kwargs(s, api_token[s], network_name)) = 1

\* C12: every key of the flat create option map other than 'name' appears
\* in exactly one of the four slices or in the reported unused keys; 'name'
\* is in none of them and is passed to create_service as the name of the
\* service; the four key sets are pairwise disjoint.
C12_NoKeyDropped == \A s \in Sessions : \A i \in CreateCalls(s) : LET kw == create_kwargs(s, api_token[s], network_name) IN
                        /\ KeySetsDisjoint
                        /\ \A k \in (DOMAIN kw) \ {"name"} : Places(k, calls[s][i], kw) = 1
                        /\ Places("name", calls[s][i], kw) = 0
                        /\ calls[s][i].arg.name = kw["name"]

C12_Witness == \E s \in Sessions : CreateCalls(s) # {} /\ "foo" \in remaining_keys(create_kwargs(s, api_token[s], network_name)) /\ "ports" \in DOMAIN extra_create_kwargs /\ Done(s, "start")

\* the running or last operation of s began with the lookup of its service
LookedUp(s) == calls[s] # <<>> /\ calls[s][1].method = "inspect_service"

\* the service name that this lookup handed to the engine
NameUsed(s) == calls[s][1].arg

\* text made of characters of the safe alphabet [A-Za-z0-9-] only
SafeText(chunk) == chunk \in _service_safe_chars \/ <<chunk>> = service_prefix

\* session s has looked its service up under the name it derived, and
\* session t derives a name as well
Comparable(s, t) == s # t /\ LookedUp(s) /\ ~service_name_raises(t)

Ascending(ms) == \A j, k \in 1..Len(ms) : j < k => ~StrLess(ms[k].target, ms[j].target)

\* C14: building the volume bindings again from the same maps yields the
\* same output (the mounts of the create_service call are the mounts built
\* from the maps as they are), and the list of mounts handed to the engine
\* is ordered by container path.
C14_MountsOrdered == \A s \in Sessions : \A i \in CreateCalls(s) : MountsOf(calls[s][i]) = mounts(s) /\ Ascending(MountsOf(calls[s][i]))

\* the part of C14 that the code keeps: the same maps give the same mounts,
\* and volume_mount_points, which start does not use, is in ascending order
C14_Deterministic == \A s \in Sessions : \A i \in CreateCalls(s) : /\ MountsOf(calls[s][i]) = mounts(s)
                                                                  /\ \A j, k \in 1..Len(volume_mount_points(s)) : j < k => ~StrLess(volume_mount_points(s)[k], volume_mount_points(s)[j])

\* the engine calls of session s that are submitted and not yet completed
Outstanding(s) == Len(SelectSeq(queue, LAMBDA c : c.sess = s)) + Len(SelectSeq(executing, LAMBDA c : c.sess = s))

\* C15: within one session every operation issues its engine calls one
\* after another, awaiting the result of each before it submits the next:
\* a session never has two engine calls outstanding at the same time.
C15_OneOutstandingCall == \A s \in Sessions : Outstanding(s) <= 1

\* C16: start with remove_services set and a service found by the lookup
\* issues remove_service for the ID the inspect returned; create_service is
\* issued only after that removal has completed, one call of each; the
\* create is the one of a start without service, and the token of the
\* session is not taken from the removed service.
C16_RemoveThenCreate == \A s \in Sessions : (op[s] = "start" /\ remove_services /\ Len(calls[s]) >= 1 /\ calls[s][1].res.exc = "none") =>
                            /\ Len(calls[s]) >= 2 => (calls[s][2].method = "remove_service" /\ calls[s][2].arg = calls[s][1].res.body.ID)
                            /\ Len(calls[s]) >= 3 => (Len(calls[s]) = 3 /\ calls[s][3].method = "create_service" /\ calls[s][2].res.exc = "none" /\ calls[s][3].arg = CreateArgs(create_kwargs(s, HubToken, network_name)))
                            /\ api_token[s] = HubToken
                            /\ (Done(s, "start") /\ calls[s][2].res.exc = "none") => Len(calls[s]) = 3
                            /\ (Done(s, "start") /\ ret[s].kind = "return") => (Len(calls[s]) = 3 /\ service_id[s] = calls[s][3].res.body.ID /\ service_id[s] # calls[s][1].res.body.ID)

C16_Witness == \E s \in Sessions : /\ Done(s, "start") /\ remove_services /\ ret[s].kind = "return" /\ Len(calls[s]) = 3
                                   /\ \E j \in 1..Len(calls[s][1].res.body.Config.Env) : IsTokenLine(calls[s][1].res.body.Config.Env[j])
                                   /\ api_token[s] = HubToken

\* C17: a configuration error (a name template or a volume path template
\* with a replacement field that cannot be resolved, or an illegal mount
\* entry) makes start fail before any engine call is issued.
C17_ConfigErrorBeforeCalls == \A s \in Sessions : (Done(s, "start") /\ ret[s] = Raised(KeyErrorExc)) => calls[s] = <<>>

\* C18: whenever no operation of the session is running, service_id is
\* empty or the ID of a service whose name is the derived service name; it
\* is empty before the first start and empty again once stop has removed
\* the service.
C18_ServiceIdNamesService == \A s \in Sessions : pc[s] = "idle" =>
                                 /\ service_id[s] = <<>> \/ \E v \in services : v.ID = service_id[s] /\ v.Name = service_name(s)
                                 /\ (op[s] = "none" /\ saved[s] = EmptyState) => service_id[s] = <<>>
                                 /\ (Done(s, "stop") /\ ret[s].kind = "return") => service_id[s] = <<>>

\* C19: two sessions that differ in username or in server name never
\* derive the same service name, the default template included.
C19_DistinctPerUserAndServer == \A s, t \in Sessions : (Comparable(s, t) /\ (user[s] # user[t] \/ server_name[s] # server_name[t])) => NameUsed(s) # service_name(t)

\* the nano-CPU value the claim gives for a CPU setting
NanoOf(c) == IF c.t = "None" THEN NoneVal ELSE IntVal((c.num * Nano) \div c.den)

\* C20: a CPU limit or reservation that is unset is passed as absent
\* (None), an explicit zero is passed as zero, and a positive fractional c
\* is passed as the integer part of c * 10^9.
C20_CpuConversion == \A s \in Sessions : \A i \in CreateCalls(s) : /\ calls[s][i].arg.task_template.resources["cpu_limit"] = NanoOf(cpu_limit)
                                                                  /\ calls[s][i].arg.task_template.resources["cpu_reservation"] = NanoOf(cpu_guarantee)

\* the part of C20 that the code keeps: unset is passed as None and a
\* positive c as the integer part of c * 10^9
C20_PositiveOrUnset == \A s \in Sessions : \A i \in CreateCalls(s) : (cpu_limit.t = "None" \/ cpu_limit.num > 0) => calls[s][i].arg.task_template.resources["cpu_limit"] = NanoOf(cpu_limit)

\* the task-listing calls of the running or last operation of s
TasksCalls(s) == {i \in 1..Len(calls[s]) : calls[s][i].method = "tasks"}

\* C21: get_task (and poll through it) issues the task listing only after
\* the service lookup has returned a present service; when the inspect is
\* answered 404 or 500 no task listing is issued.
C21_LookupBeforeTasks == \A s \in Sessions : (op[s] \in {"get_task", "poll"} /\ TasksCalls(s) # {}) => (calls[s][1].method = "inspect_service" /\ calls[s][1].res.exc = "none")

\* C22: a start whose create_service call succeeded has inspected the
\* service again, after the creation, when it returns the address.
C22_InspectAfterCreate == \A s \in Sessions : \A i \in CreateCalls(s) : (Done(s, "start") /\ ret[s].kind = "return" /\ calls[s][i].res.exc = "none") => \E j \in (i + 1)..Len(calls[s]) : calls[s][j].method = "inspect_service"

\* C23: while a create_service call of start is outstanding and the engine
\* has not answered it, the engine holds no service of the derived name;
\* not after an inspect answered 500 either.
C23_NoCreateWhileServiceExists == \A s \in Sessions : \A i \in CreateCalls(s) : calls[s][i].res = Pending => ~\E v \in services : v.Name = calls[s][i].arg.name

\* C24: no operation issues remove_service with an empty identifier.
C24_NoRemoveOfEmptyId == \A s \in Sessions : \A i \in 1..Len(calls[s]) : calls[s][i].method = "remove_service" => calls[s][i].arg # <<>>

\* what the get_service coroutine started by get_task has left to do for
\* session s: its inspect call at the executor, or its continuation at the
\* IOLoop
LeftBehind(s) == Len(SelectSeq(queue, LAMBDA c : c.sess = s /\ c.tag = "bg")) + Len(SelectSeq(executing, LAMBDA c : c.sess = s /\ c.tag = "bg")) + Len(SelectSeq(callbacks, LAMBDA c : c.sess = s /\ c.tag = "bg"))

\* C25: once get_task or poll has returned or raised, the inspect it
\* started has completed and its effect on service_id has been applied:
\* outside a running get_task nothing of it is left at the executor or at
\* the IOLoop, so nothing of it can change service_id during or after a
\* later operation.
C25_NothingLeftBehind == \A s \in Sessions : pc[s] # "get_task" => LeftBehind(s) = 0

====
